---- MODULE Spec2Model ----
(***************************************************************************)
(* State-machine model of the Cortex dashboard session controller          *)
(* (the App component: processFile, handleRefine, toggleColumn,            *)
(* handleTargetChange, toggleDropdown) and of the ColumnSelector and       *)
(* TargetSelector components through which its handlers are invoked.       *)
(*                                                                         *)
(* Accuracies are integers in hundredths of a percentage point             *)
(* (8450 stands for 84.50).  Every accuracy of the model is an even        *)
(* number of hundredths, so no difference lies exactly half way between    *)
(* two tenths and toFixed(1) never has to break a tie.                     *)
(***************************************************************************)
EXTENDS Integers, Sequences, FiniteSets, TLC

VARIABLES
  loading,          \* useState(false)   - the busy flag
  report,           \* useState(null)    - the last installed response
  file,             \* useState(null)    - the uploaded file handle
  selectedCols,     \* useState([])      - array of column identifiers
  selectedTarget,   \* useState(null)
  insights,         \* useState([])      - the insight log, newest first
  openDropdown,     \* useState(null)    - App's panel state
  csOpen,           \* ColumnSelector's own useState(false)
  inflight,         \* the axios.post promises not yet settled
  sent,             \* number of requests issued so far
  now,              \* the last value Date.now() returned
  alertMsg,         \* the alert() raised by the last step, or NoAlert
  lastEvent         \* the handler (and its exit path) that ran last

vars == <<loading, report, file, selectedCols, selectedTarget, insights,
          openDropdown, csOpen, inflight, sent, now, alertMsg, lastEvent>>

sessionVars == <<loading, report, file, selectedCols, selectedTarget,
                 insights, openDropdown>>

----------------------------------------------------------------------------
(* Bounds of the model *)

\* requests the user issues in one run (uploads and recalibrations together)
MaxRequests == 2

\* the same, in the runs without clicks on the selection controls
MaxLogRequests == 6

\* the same, in the runs over the grid of accuracies
MaxEngineRequests == 3

\* the same, in the runs with accuracies that are not numbers
MaxRawRequests == 3

\* the same, in the runs whose clock can read the same millisecond twice
MaxClockRequests == 4

\* Date.now() readings that fall into the same displayed minute
TicksPerMinute == 2

(* The log cap of handleRefine: slice(0, 5) *)
LogCap == 5

----------------------------------------------------------------------------
(* Values *)

Null == "null"
NoAlert == "none"
NoReport == [kind |-> "null"]
NoStats == [kind |-> "undefined"]

Files == {"f1", "f2"}

\* column_diagnostics of a file: one entry per source column, in order
ColumnsOf(f) == IF f = "f1" THEN <<"a", "b">> ELSE <<"b", "c">>

AllColumns == {"a", "b", "c"}

Panels == {"target", "features", "importance"}

\* stats.accuracy as the service sends it
NumberRaw(n) == [kind |-> "number", v |-> n]
UndefinedRaw == [kind |-> "undefined", v |-> 0]
\* a string that parseFloat cannot read, such as "n/a"
TextRaw == [kind |-> "text", v |-> 0]

Accuracies == {NumberRaw(8200), NumberRaw(8450)}

\* a JavaScript number: a finite value in hundredths, or NaN
Num(n) == [nan |-> FALSE, v |-> n]
NaN == [nan |-> TRUE, v |-> 0]

Range(s) == {s[i] : i \in 1..Len(s)}

----------------------------------------------------------------------------
(* JavaScript helpers, computed as the engine computes them *)

\* parseFloat(x): the number a value starts with, NaN when it has none
ParseFloat(raw) == IF raw.kind = "number" THEN Num(raw.v) ELSE NaN

\* x || 0 on stats.accuracy: undefined and the number 0 are falsy
OrZero(raw) ==
  IF raw.kind = "undefined" \/ (raw.kind = "number" /\ raw.v = 0)
  THEN NumberRaw(0) ELSE raw

\* report?.stats?.accuracy
AccuracyOf(r) ==
  IF r.kind = "null" THEN UndefinedRaw
  ELSE IF r.stats.kind = "undefined" THEN UndefinedRaw
  ELSE r.stats.accuracy

\* a - b on JavaScript numbers
Minus(a, b) == IF a.nan \/ b.nan THEN NaN ELSE Num(a.v - b.v)

Abs(n) == IF n < 0 THEN -n ELSE n

\* x.toFixed(1): the decimal string of x rounded to one decimal; the sign is
\* taken from x before rounding, so a small negative x gives "-0.0"
ToFixed1(x) ==
  IF x.nan THEN [text |-> "NaN", neg |-> FALSE, whole |-> 0, frac |-> 0]
  ELSE LET t == (Abs(x.v) + 5) \div 10
       IN [text |-> "decimal", neg |-> x.v < 0,
           whole |-> t \div 10, frac |-> t % 10]

\* the number a string converts to when compared with 0, in tenths
ToNumber(str) ==
  IF str.text = "NaN" THEN NaN
  ELSE LET t == 10 * str.whole + str.frac
       IN Num(IF str.neg THEN -t ELSE t)

\* diff > 0 and diff < 0 with diff a string
GreaterThanZero(str) == LET n == ToNumber(str) IN ~n.nan /\ n.v > 0
LessThanZero(str) == LET n == ToNumber(str) IN ~n.nan /\ n.v < 0

\* a trend read off the sign character of the formatted difference
TrendOfSignCharacter(diff) ==
  IF diff.neg THEN "DEGRADED"
  ELSE IF GreaterThanZero(diff) THEN "OPTIMIZED" ELSE "STABLE"

\* line 73
TrendOf(diff) ==
  IF GreaterThanZero(diff) THEN "OPTIMIZED"
  ELSE IF LessThanZero(diff) THEN "DEGRADED" ELSE "STABLE"

\* lines 80-87
DynamicMessage(diff, prunedCount) ==
  IF GreaterThanZero(diff)
  THEN [template |-> "Optimization successful", pruned |-> prunedCount]
  ELSE IF LessThanZero(diff)
  THEN [template |-> "Intelligence degradation detected", pruned |-> 0]
  ELSE [template |-> "Model weights recalculated", pruned |-> 0]

\* line 92: diff > 0 ? `+${diff}%` : `${diff}%`
DiffLabel(diff) ==
  [plus |-> GreaterThanZero(diff), number |-> diff, suffix |-> "%"]

\* line 44: diff: "INIT"
InitLabel ==
  [plus |-> FALSE,
   number |-> [text |-> "INIT", neg |-> FALSE, whole |-> 0, frac |-> 0],
   suffix |-> ""]

\* toLocaleTimeString with hour and minute only
TimeString(t) == t \div TicksPerMinute

\* lines 69-95: the entry a recalibration response yields
NewEntry(prevAccuracy, rawAccuracy, totalColsCount, activeColsCount, t) ==
  LET newAccuracy == ParseFloat(rawAccuracy)
      diff == ToFixed1(Minus(newAccuracy, prevAccuracy))
      prunedCount == totalColsCount - activeColsCount
  IN [id |-> t,
      trend |-> TrendOf(diff),
      diff |-> DiffLabel(diff),
      timestamp |-> TimeString(t),
      message |-> DynamicMessage(diff, prunedCount)]

\* the initial entry with the label of a recalibration that changed nothing
InitialEntryNumeric(t) ==
  [id |-> t,
   trend |-> "STABLE",
   diff |-> DiffLabel(ToFixed1(Num(0))),
   timestamp |-> TimeString(t),
   message |-> [template |-> "Neural baseline established", pruned |-> 0]]

\* lines 41-47: the entry a successful upload installs
InitialEntry(t) ==
  [id |-> t,
   trend |-> "STABLE",
   diff |-> InitLabel,
   timestamp |-> TimeString(t),
   message |-> [template |-> "Neural baseline established", pruned |-> 0]]

\* arr.filter(c => c !== x)
Without(arr, x) == SelectSeq(arr, LAMBDA c : c # x)

\* [newEntry, ...prev] with the slice left out
PrependUncapped(entry, prev) == <<entry>> \o prev

\* [...prev, newEntry].slice(-5): the new entry last
AppendCapped(entry, prev) ==
  LET all == Append(prev, entry)
  IN SubSeq(all, IF Len(all) > LogCap THEN Len(all) - LogCap + 1 ELSE 1,
            Len(all))

\* [newEntry, ...prev].slice(0, 5)
PrependCapped(entry, prev) ==
  SubSeq(<<entry>> \o prev, 1,
         IF Len(prev) + 1 < LogCap THEN Len(prev) + 1 ELSE LogCap)

\* lines 107-113: the updater of toggleColumn
\* toggleColumn whose includes test looks at the last element only
ToggledByLast(prev, colValue) ==
  IF prev # <<>> /\ prev[Len(prev)] = colValue
  THEN Without(prev, colValue)
  ELSE Append(prev, colValue)

\* toggleColumn without the includes test: the column is always pushed
ToggledPushOnly(prev, colValue) == Append(prev, colValue)

Toggled(prev, colValue) ==
  IF colValue \in Range(prev) THEN Without(prev, colValue)
  ELSE Append(prev, colValue)

\* lines 34-35 without the filter of line 36
DefaultColsUnfiltered(res) == res.column_diagnostics

\* lines 34-36: all columns except the target
DefaultCols(res) == Without(res.column_diagnostics, res.stats.target_used)

----------------------------------------------------------------------------
(* The analysis service: every response it can give to a request *)

StatsFor(q, accs) ==
  {[kind |-> "stats", accuracy |-> a, target_used |-> t] :
     a \in accs,
     t \in (IF q.kind = "upload" THEN Range(ColumnsOf(q.file))
            ELSE {q.target_column})}

\* the bodies that carry stats, and the one that lacks them
Responses(q, accs) ==
  {[kind |-> "report", stats |-> s,
    column_diagnostics |-> ColumnsOf(q.file), of_file |-> q.file] :
     s \in StatsFor(q, accs) \cup {NoStats}}

\* Date.now(): later than the last reading
Later == {now + 1}

----------------------------------------------------------------------------
(* Initial state: the useState defaults *)

Init ==
  /\ loading = FALSE
  /\ report = NoReport
  /\ file = Null
  /\ selectedCols = <<>>
  /\ selectedTarget = Null
  /\ insights = <<>>
  /\ openDropdown = Null
  /\ csOpen = FALSE
  /\ inflight = {}
  /\ sent = 0
  /\ now = 0
  /\ alertMsg = NoAlert
  /\ lastEvent = "mount"

----------------------------------------------------------------------------
(* processFile, lines 21-53.  The drop zone and the file input are rendered  *)
(* only while loading is false and report is null (lines 204-223).           *)

UploadZoneShown == ~loading /\ report = NoReport

\* lines 21-31: up to the await; uploadedFile is undefined when no file was
\* chosen
\* an upload zone that stays on screen with a report or a pending request
ProcessFileAnytime(uploadedFile) ==
  /\ IF uploadedFile = Null
     THEN /\ lastEvent' = "processFile:return"
          /\ UNCHANGED <<file, loading, inflight, sent>>
     ELSE /\ file' = uploadedFile
          /\ loading' = TRUE
          /\ inflight' = inflight \cup
               {[id |-> sent + 1, kind |-> "upload", file |-> uploadedFile,
                 selected_columns |-> <<>>, target_column |-> Null,
                 prevAccuracy |-> Num(0), report |-> NoReport,
                 insights |-> <<>>]}
          /\ sent' = sent + 1
          /\ lastEvent' = "processFile:post"
  /\ alertMsg' = NoAlert
  /\ UNCHANGED <<report, selectedCols, selectedTarget, insights,
                 openDropdown, csOpen, now>>

ProcessFile(uploadedFile) ==
  /\ UploadZoneShown
  /\ IF uploadedFile = Null
     THEN /\ lastEvent' = "processFile:return"
          /\ UNCHANGED <<file, loading, inflight, sent>>
     ELSE /\ file' = uploadedFile
          /\ loading' = TRUE
          /\ inflight' = inflight \cup
               {[id |-> sent + 1, kind |-> "upload", file |-> uploadedFile,
                 selected_columns |-> <<>>, target_column |-> Null,
                 prevAccuracy |-> Num(0), report |-> NoReport,
                 insights |-> <<>>]}
          /\ sent' = sent + 1
          /\ lastEvent' = "processFile:post"
  /\ alertMsg' = NoAlert
  /\ UNCHANGED <<report, selectedCols, selectedTarget, insights,
                 openDropdown, csOpen, now>>

\* lines 32-47 and 50-52: the response carries everything the handler reads
UploadOk(q, res, t) ==
  /\ q \in inflight /\ q.kind = "upload"
  /\ res.stats # NoStats
  /\ inflight' = inflight \ {q}
  /\ report' = res
  /\ selectedCols' = DefaultCols(res)
  /\ selectedTarget' = res.stats.target_used
  /\ insights' = <<InitialEntry(t)>>
  /\ now' = t
  /\ loading' = FALSE
  /\ alertMsg' = NoAlert
  /\ lastEvent' = "processFile:ok"
  /\ UNCHANGED <<file, openDropdown, csOpen, sent>>

\* lines 32-36, 48-52: the body has no stats; setReport has run when
\* res.data.stats.target_used throws
UploadFault(q, res) ==
  /\ q \in inflight /\ q.kind = "upload"
  /\ res.stats = NoStats
  /\ inflight' = inflight \ {q}
  /\ report' = res
  /\ loading' = FALSE
  /\ alertMsg' = "Analysis failed."
  /\ lastEvent' = "processFile:fault"
  /\ UNCHANGED <<file, selectedCols, selectedTarget, insights,
                 openDropdown, csOpen, sent, now>>

\* lines 31, 48-52: axios.post rejects
UploadError(q) ==
  /\ q \in inflight /\ q.kind = "upload"
  /\ inflight' = inflight \ {q}
  /\ loading' = FALSE
  /\ alertMsg' = "Analysis failed."
  /\ lastEvent' = "processFile:error"
  /\ UNCHANGED <<report, file, selectedCols, selectedTarget, insights,
                 openDropdown, csOpen, sent, now>>

----------------------------------------------------------------------------
(* handleRefine, lines 56-104.  The controls (both selectors and the        *)
(* Re-Calibrate button) are rendered whenever report is set (line 160);     *)
(* the button has no disabled attribute (lines 180-185).                    *)

ControlsShown == report # NoReport

\* lines 56-68: up to the await; the request keeps what the handler's closure
\* holds of the render it was created in
\* handleRefine sending every column of the report as selected_columns
HandleRefineSendsAllColumns ==
  /\ ControlsShown
  /\ IF file = Null \/ selectedTarget = Null
     THEN /\ lastEvent' = "handleRefine:return"
          /\ UNCHANGED <<loading, inflight, sent>>
     ELSE /\ loading' = TRUE
          /\ inflight' = inflight \cup
               {[id |-> sent + 1, kind |-> "refine", file |-> file,
                 selected_columns |-> report.column_diagnostics,
                 target_column |-> selectedTarget,
                 prevAccuracy |-> ParseFloat(OrZero(AccuracyOf(report))),
                 report |-> report, insights |-> insights]}
          /\ sent' = sent + 1
          /\ lastEvent' = "handleRefine:post"
  /\ alertMsg' = NoAlert
  /\ UNCHANGED <<report, file, selectedCols, selectedTarget, insights,
                 openDropdown, csOpen, now>>

\* handleRefine without the test of line 57: the request is always posted
HandleRefineUnvalidated ==
  /\ ControlsShown
  /\ loading' = TRUE
  /\ inflight' = inflight \cup
       {[id |-> sent + 1, kind |-> "refine", file |-> file,
         selected_columns |-> selectedCols,
         target_column |-> selectedTarget,
         prevAccuracy |-> ParseFloat(OrZero(AccuracyOf(report))),
         report |-> report, insights |-> insights]}
  /\ sent' = sent + 1
  /\ lastEvent' = "handleRefine:post"
  /\ alertMsg' = NoAlert
  /\ UNCHANGED <<report, file, selectedCols, selectedTarget, insights,
                 openDropdown, csOpen, now>>

HandleRefine ==
  /\ ControlsShown
  /\ IF file = Null \/ selectedTarget = Null
     THEN /\ lastEvent' = "handleRefine:return"
          /\ UNCHANGED <<loading, inflight, sent>>
     ELSE /\ loading' = TRUE
          /\ inflight' = inflight \cup
               {[id |-> sent + 1, kind |-> "refine", file |-> file,
                 selected_columns |-> selectedCols,
                 target_column |-> selectedTarget,
                 prevAccuracy |-> ParseFloat(OrZero(AccuracyOf(report))),
                 report |-> report, insights |-> insights]}
          /\ sent' = sent + 1
          /\ lastEvent' = "handleRefine:post"
  /\ alertMsg' = NoAlert
  /\ UNCHANGED <<report, file, selectedCols, selectedTarget, insights,
                 openDropdown, csOpen, now>>

\* lines 69-98 and 101-103; report and selectedCols are those of the render
\* in which the button was clicked
\* a completion that counts the columns selected when the response arrives
RefineOkCurrentSelection(q, res, t) ==
  /\ q \in inflight /\ q.kind = "refine"
  /\ res.stats # NoStats
  /\ inflight' = inflight \ {q}
  /\ insights' = PrependCapped(
        NewEntry(q.prevAccuracy, res.stats.accuracy,
                 Len(report.column_diagnostics), Len(selectedCols), t),
        insights)
  /\ report' = res
  /\ now' = t
  /\ loading' = FALSE
  /\ alertMsg' = NoAlert
  /\ lastEvent' = "handleRefine:ok"
  /\ UNCHANGED <<file, selectedCols, selectedTarget, openDropdown, csOpen,
                 sent>>

RefineOk(q, res, t) ==
  /\ q \in inflight /\ q.kind = "refine"
  /\ res.stats # NoStats
  /\ inflight' = inflight \ {q}
  /\ insights' = PrependCapped(
        NewEntry(q.prevAccuracy, res.stats.accuracy,
                 Len(q.report.column_diagnostics), Len(q.selected_columns), t),
        insights)
  /\ report' = res
  /\ now' = t
  /\ loading' = FALSE
  /\ alertMsg' = NoAlert
  /\ lastEvent' = "handleRefine:ok"
  /\ UNCHANGED <<file, selectedCols, selectedTarget, openDropdown, csOpen,
                 sent>>

\* lines 69, 99-103: the body has no stats; res.data.stats.accuracy throws
RefineFault(q, res) ==
  /\ q \in inflight /\ q.kind = "refine"
  /\ res.stats = NoStats
  /\ inflight' = inflight \ {q}
  /\ loading' = FALSE
  /\ alertMsg' = "Refining failed."
  /\ lastEvent' = "handleRefine:fault"
  /\ UNCHANGED <<report, file, selectedCols, selectedTarget, insights,
                 openDropdown, csOpen, sent, now>>

\* lines 68, 99-103: axios.post rejects
\* a rejected recalibration without the finally block of lines 101-103
RefineErrorKeepsLoading(q) ==
  /\ q \in inflight /\ q.kind = "refine"
  /\ inflight' = inflight \ {q}
  /\ alertMsg' = "Refining failed."
  /\ lastEvent' = "handleRefine:error"
  /\ UNCHANGED <<loading, report, file, selectedCols, selectedTarget,
                 insights, openDropdown, csOpen, sent, now>>

RefineError(q) ==
  /\ q \in inflight /\ q.kind = "refine"
  /\ inflight' = inflight \ {q}
  /\ loading' = FALSE
  /\ alertMsg' = "Refining failed."
  /\ lastEvent' = "handleRefine:error"
  /\ UNCHANGED <<report, file, selectedCols, selectedTarget, insights,
                 openDropdown, csOpen, sent, now>>

----------------------------------------------------------------------------
(* The selection handlers, lines 106-126, and the components that call them *)

\* toggleColumn, lines 106-114, called from a row of the open ColumnSelector
\* menu: every column of the diagnostics has a row (ColumnSelector 47-56)
\* a row click that also reaches the wrapper's toggleDropdown('features')
ToggleColumnBubbles(colValue) ==
  /\ ControlsShown /\ csOpen
  /\ colValue \in Range(report.column_diagnostics)
  /\ selectedCols' = Toggled(selectedCols, colValue)
  /\ openDropdown' = (IF openDropdown = "features" THEN Null ELSE "features")
  /\ alertMsg' = NoAlert
  /\ lastEvent' = "toggleColumn"
  /\ UNCHANGED <<loading, report, file, selectedTarget, insights,
                 csOpen, inflight, sent, now>>

ToggleColumn(colValue) ==
  /\ ControlsShown /\ csOpen
  /\ colValue \in Range(report.column_diagnostics)
  /\ selectedCols' = Toggled(selectedCols, colValue)
  /\ alertMsg' = NoAlert
  /\ lastEvent' = "toggleColumn"
  /\ UNCHANGED <<loading, report, file, selectedTarget, insights,
                 openDropdown, csOpen, inflight, sent, now>>

\* handleTargetChange, lines 116-121, called from a row of the open
\* TargetSelector menu
\* a target menu that offers columns the report does not list
HandleTargetChangeAnyColumn(newTarget) ==
  /\ ControlsShown /\ openDropdown = "target"
  /\ selectedTarget' = newTarget
  /\ selectedCols' = Without(selectedCols, newTarget)
  /\ openDropdown' = Null
  /\ alertMsg' = NoAlert
  /\ lastEvent' = "handleTargetChange"
  /\ UNCHANGED <<loading, report, file, insights, csOpen, inflight, sent,
                 now>>

HandleTargetChange(newTarget) ==
  /\ ControlsShown /\ openDropdown = "target"
  /\ newTarget \in Range(report.column_diagnostics)
  /\ selectedTarget' = newTarget
  /\ selectedCols' = Without(selectedCols, newTarget)
  /\ openDropdown' = Null
  /\ alertMsg' = NoAlert
  /\ lastEvent' = "handleTargetChange"
  /\ UNCHANGED <<loading, report, file, insights, csOpen, inflight, sent,
                 now>>

\* line 125
ToggledDropdown(name) == IF openDropdown = name THEN Null ELSE name

\* toggleDropdown, lines 124-126, from the TargetSelector button or a click
\* inside one of the three wrappers (lines 162, 171, 186)
ToggleDropdown(name) ==
  /\ ControlsShown
  /\ name \in Panels
  /\ openDropdown' = ToggledDropdown(name)
  /\ alertMsg' = NoAlert
  /\ lastEvent' = "toggleDropdown"
  /\ UNCHANGED <<loading, report, file, selectedCols, selectedTarget,
                 insights, csOpen, inflight, sent, now>>

\* ColumnSelector's button (ColumnSelector 20-23): setOpen(!open); the click
\* bubbles to the wrapper of line 171
ColumnSelectorButton ==
  /\ ControlsShown
  /\ csOpen' = ~csOpen
  /\ openDropdown' = ToggledDropdown("features")
  /\ alertMsg' = NoAlert
  /\ lastEvent' = "columnSelectorButton"
  /\ UNCHANGED <<loading, report, file, selectedCols, selectedTarget,
                 insights, inflight, sent, now>>

\* a click on Re-Calibrate posts a request: the button is rendered (line
\* 160) and the test of line 57 passes
CanRefine == ControlsShown /\ file # Null /\ selectedTarget # Null

\* the DOWNLOAD button: disabled={!report} (line 140)
DownloadEnabled == report # NoReport

\* the panels shown open: TargetSelector renders its menu on isOpen
\* (openDropdown === 'target', line 167), ColumnSelector on its own open
\* flag (ColumnSelector 7, 34), the importance panel is the one App marks
\* open (line 189)
OpenPanels ==
  {p \in {"target", "importance"} : openDropdown = p}
    \cup (IF csOpen THEN {"features"} ELSE {})

----------------------------------------------------------------------------

(* Runs of the whole session: every handler, up to MaxRequests requests *)

Next ==
  \/ sent < MaxRequests /\ \E f \in Files \cup {Null} : ProcessFile(f)
  \/ sent < MaxRequests /\ HandleRefine
  \/ \E q \in inflight : \E res \in Responses(q, Accuracies) :
       \E t \in Later : UploadOk(q, res, t)
  \/ \E q \in inflight : \E res \in Responses(q, Accuracies) :
       UploadFault(q, res)
  \/ \E q \in inflight : UploadError(q)
  \/ \E q \in inflight : \E res \in Responses(q, Accuracies) :
       \E t \in Later : RefineOk(q, res, t)
  \/ \E q \in inflight : \E res \in Responses(q, Accuracies) :
       RefineFault(q, res)
  \/ \E q \in inflight : RefineError(q)
  \/ \E c \in AllColumns : ToggleColumn(c)
  \/ \E c \in AllColumns : HandleTargetChange(c)
  \/ \E name \in Panels : ToggleDropdown(name)
  \/ ColumnSelectorButton

Spec == Init /\ [][Next]_vars

(* The same runs, in which a pending request does not stay pending for ever: *)
(* the promise of axios.post is resolved or rejected and the code after the  *)
(* await runs. Nothing obliges the user to click.                            *)

Settle ==
  \/ \E q \in inflight : \E res \in Responses(q, Accuracies) :
       \E t \in Later : UploadOk(q, res, t)
  \/ \E q \in inflight : \E res \in Responses(q, Accuracies) :
       UploadFault(q, res)
  \/ \E q \in inflight : UploadError(q)
  \/ \E q \in inflight : \E res \in Responses(q, Accuracies) :
       \E t \in Later : RefineOk(q, res, t)
  \/ \E q \in inflight : \E res \in Responses(q, Accuracies) :
       RefineFault(q, res)
  \/ \E q \in inflight : RefineError(q)

SpecSettling == Init /\ [][Next]_vars /\ WF_vars(Settle)

(* Runs of uploads and recalibrations alone, long enough for recalibrations *)
(* to be pending together and for the insight log to pass its cap           *)

NextLog ==
  \/ sent < MaxLogRequests /\ \E f \in {"f1", Null} : ProcessFile(f)
  \/ sent < MaxLogRequests /\ HandleRefine
  \/ \E q \in inflight : \E res \in Responses(q, Accuracies) :
       \E t \in Later : UploadOk(q, res, t)
  \/ \E q \in inflight : \E res \in Responses(q, Accuracies) :
       UploadFault(q, res)
  \/ \E q \in inflight : UploadError(q)
  \/ \E q \in inflight : \E res \in Responses(q, Accuracies) :
       \E t \in Later : RefineOk(q, res, t)
  \/ \E q \in inflight : \E res \in Responses(q, Accuracies) :
       RefineFault(q, res)
  \/ \E q \in inflight : RefineError(q)

SpecLog == Init /\ [][NextLog]_vars

(* Runs of one upload and the recalibrations after it, the service answering *)
(* with every accuracy of a grid: the entries of the Insight Engine for      *)
(* every pair (previous accuracy, new accuracy) of the grid                  *)

\* accuracies in hundredths of a point: the pairs 82.0/84.5, 90.0/90.0 and
\* 75.3/70.1, and neighbours 0.02, 0.04 and 0.06 apart
AccuracyGrid ==
  {NumberRaw(n) : n \in {7010, 7530, 8200, 8204, 8206, 8450, 9000}}

NextEngine ==
  \/ sent < MaxEngineRequests /\ \E f \in {"f1", Null} : ProcessFile(f)
  \/ sent < MaxEngineRequests /\ HandleRefine
  \/ \E q \in inflight : \E res \in Responses(q, AccuracyGrid) :
       \E t \in Later : UploadOk(q, res, t)
  \/ \E q \in inflight : \E res \in Responses(q, AccuracyGrid) :
       UploadFault(q, res)
  \/ \E q \in inflight : UploadError(q)
  \/ \E q \in inflight : \E res \in Responses(q, AccuracyGrid) :
       \E t \in Later : RefineOk(q, res, t)
  \/ \E q \in inflight : \E res \in Responses(q, AccuracyGrid) :
       RefineFault(q, res)
  \/ \E q \in inflight : RefineError(q)

SpecEngine == Init /\ [][NextEngine]_vars

(* The same runs with a clock of millisecond resolution: a completion that   *)
(* follows another completion may read the millisecond the other one read.   *)
(* A request takes longer than a millisecond, so a completion reads a later  *)
(* time than any reading made before its request was issued.                 *)

\* Date.now() at the completion of q: q's closure still holds the log of the
\* render it was issued in; if the log has changed since, another
\* completion came in between and may have read the same millisecond
SameOrLater(q) == IF q.insights = insights THEN {now + 1} ELSE {now, now + 1}

NextClock ==
  \/ sent < MaxClockRequests /\ \E f \in {"f1", Null} : ProcessFile(f)
  \/ sent < MaxClockRequests /\ HandleRefine
  \/ \E q \in inflight : \E res \in Responses(q, Accuracies) :
       \E t \in SameOrLater(q) : UploadOk(q, res, t)
  \/ \E q \in inflight : \E res \in Responses(q, Accuracies) :
       UploadFault(q, res)
  \/ \E q \in inflight : UploadError(q)
  \/ \E q \in inflight : \E res \in Responses(q, Accuracies) :
       \E t \in SameOrLater(q) : RefineOk(q, res, t)
  \/ \E q \in inflight : \E res \in Responses(q, Accuracies) :
       RefineFault(q, res)
  \/ \E q \in inflight : RefineError(q)

SpecClock == Init /\ [][NextClock]_vars

(* The same runs with a service whose stats carry an accuracy that is        *)
(* missing or is not a number                                                *)

RawAccuracies == {NumberRaw(8200), NumberRaw(8450), UndefinedRaw, TextRaw}

NextRaw ==
  \/ sent < MaxRawRequests /\ \E f \in {"f1", Null} : ProcessFile(f)
  \/ sent < MaxRawRequests /\ HandleRefine
  \/ \E q \in inflight : \E res \in Responses(q, RawAccuracies) :
       \E t \in Later : UploadOk(q, res, t)
  \/ \E q \in inflight : \E res \in Responses(q, RawAccuracies) :
       UploadFault(q, res)
  \/ \E q \in inflight : UploadError(q)
  \/ \E q \in inflight : \E res \in Responses(q, RawAccuracies) :
       \E t \in Later : RefineOk(q, res, t)
  \/ \E q \in inflight : \E res \in Responses(q, RawAccuracies) :
       RefineFault(q, res)
  \/ \E q \in inflight : RefineError(q)

SpecRaw == Init /\ [][NextRaw]_vars

----------------------------------------------------------------------------
(* Properties *)

Min(a, b) == IF a < b THEN a ELSE b

FailedRefine(q) ==
  RefineError(q) \/ \E res \in Responses(q, Accuracies) : RefineFault(q, res)

\* C1: in every reachable state the selected target is not one of the
\* selected columns.
C1_TargetNotInSelectedCols == selectedTarget \notin Range(selectedCols)

\* C2: a call of the recalibration handler while busy is true issues no
\* request and changes no session state.
C2_RefineWhileBusyChangesNothing ==
  [][(loading /\ HandleRefine) =>
       (UNCHANGED sessionVars /\ sent' = sent /\ inflight' = inflight)]_vars

\* C3: at most one request is in flight in every reachable state.
C3_AtMostOneInFlight == Cardinality(inflight) <= 1

\* C4: busy is true exactly while a request is in flight.
C4_BusyIffInFlight == loading <=> (inflight # {})

\* C5: when a recalibration fails, report and insight log are what they were
\* when that request was issued, and the session is idle with that report.
C5_FailedRefineKeepsReportAndLog ==
  [][\A q \in inflight :
       FailedRefine(q) =>
         /\ report' = q.report
         /\ insights' = q.insights
         /\ ~loading']_vars

\* C6: after a failed initial upload the session is Empty: no report, no
\* file, no target, no selected columns, an empty log, not busy.
C6_FailedUploadLeavesEmpty ==
  lastEvent \in {"processFile:error", "processFile:fault"} =>
    /\ report = NoReport
    /\ file = Null
    /\ selectedTarget = Null
    /\ selectedCols = <<>>
    /\ insights = <<>>
    /\ ~loading

\* C7: the insight log never holds more than five entries.
C7_LogAtMostFive == Len(insights) <= LogCap

\* C7 witness: more entries have been created than the log may hold, and the
\* log is full.
C7_Witness == now > LogCap /\ Len(insights) = LogCap

\* C8: a successful recalibration puts the entry it creates first, keeps the
\* entries that were at indices 0..3 behind it in their order, drops the one
\* that was at index 4, and installs the response as the report.
C8_RefinePrependsAndInstalls ==
  [][\A q \in inflight : \A res \in Responses(q, Accuracies) :
       \A t \in Later :
         RefineOk(q, res, t) =>
           /\ insights'[1] =
                NewEntry(q.prevAccuracy, res.stats.accuracy,
                         Len(q.report.column_diagnostics),
                         Len(q.selected_columns), t)
           /\ Len(insights') = Min(Len(insights) + 1, LogCap)
           /\ \A i \in 1..Min(Len(insights), LogCap - 1) :
                insights'[i + 1] = insights[i]
           /\ report' = res]_vars

\* C8 witness: a recalibration has just succeeded on a log that was full.
C8_Witness ==
  /\ lastEvent = "handleRefine:ok"
  /\ now > LogCap
  /\ Len(insights) = LogCap

C10_UploadDefaultSelection ==
  lastEvent = "processFile:ok" =>
    /\ selectedTarget = report.stats.target_used
    /\ Range(selectedCols) =
         Range(report.column_diagnostics) \ {report.stats.target_used}

\* C10 witness: an upload has just succeeded and left columns selected.
C10_Witness ==
  /\ lastEvent = "processFile:ok"
  /\ selectedTarget # Null
  /\ Len(selectedCols) >= 1

\* C11: changeTarget(x) makes x the target, removes x from the selected
\* columns and keeps the others, leaves no auxiliary panel open, and leaves
\* report, insight log, file and busy as they were.
C11_ChangeTargetEffect ==
  [][\A x \in AllColumns :
       HandleTargetChange(x) =>
         /\ selectedTarget' = x
         /\ selectedCols' = Without(selectedCols, x)
         /\ Range(selectedCols') = Range(selectedCols) \ {x}
         /\ OpenPanels' = {}
         /\ UNCHANGED <<report, insights, file, loading>>]_vars

\* C12: for every identifier x and every selectedColumns the session reaches,
\* applying toggleColumn(x) twice in succession leaves x, and every other
\* identifier, a member of selectedColumns exactly when it was before.
C12_ToggleTwiceKeepsMembership ==
  \A x \in AllColumns :
    \A y \in AllColumns :
      (y \in Range(Toggled(Toggled(selectedCols, x), x)))
        <=> (y \in Range(selectedCols))

\* toggleColumn has just acted on a session with a non-empty selection
C12_Witness ==
  /\ lastEvent = "toggleColumn"
  /\ selectedCols # <<>>
  /\ \E x \in AllColumns : x \notin Range(selectedCols)

\* a difference in hundredths rounded to tenths (no difference of the grid
\* lies halfway between two tenths)
RoundTenths(d) == IF d >= 0 THEN (d + 5) \div 10 ELSE -((5 - d) \div 10)

\* C13: for every pair of accuracies of the grid, the entry of a successful
\* recalibration has trend OPTIMIZED iff the difference rounded to one
\* decimal is greater than zero, DEGRADED iff it is less than zero, STABLE
\* iff it is zero; its trend is never INIT.
C13_TrendFollowsRoundedDifference ==
  [][\A q \in inflight : \A res \in Responses(q, AccuracyGrid) :
       \A t \in Later :
         RefineOk(q, res, t) =>
           LET d == RoundTenths(res.stats.accuracy.v - q.prevAccuracy.v)
               trend == insights'[1].trend
           IN /\ (trend = "OPTIMIZED") <=> (d > 0)
              /\ (trend = "DEGRADED") <=> (d < 0)
              /\ (trend = "STABLE") <=> (d = 0)
              /\ trend # "INIT"]_vars

\* a recalibration whose accuracy fell by less than 0.05 has been logged:
\* the difference is formatted "-0.0" and the trend is STABLE
C13_Witness ==
  /\ lastEvent = "handleRefine:ok"
  /\ insights[1].trend = "STABLE"
  /\ insights[1].diff.number.neg

\* C15: requestRecalibration with no file or no selected target, and
\* uploadFile with no file handle, issue no request and leave busy and all
\* other session state unchanged.
C15_ValidationReturnsChangeNothing ==
  [][(\/ HandleRefine /\ (file = Null \/ selectedTarget = Null)
      \/ ProcessFile(Null))
       => UNCHANGED <<sessionVars, csOpen, inflight, sent, now>>]_vars

\* Re-Calibrate has been clicked on a session with a file and a report but
\* no target
C15_Witness ==
  /\ lastEvent = "handleRefine:return"
  /\ file # Null /\ report # NoReport
  /\ selectedTarget = Null

\* C16: every failure is surfaced: a failed upload, a failed recalibration
\* and a recalibration requested with no file or no target each produce a
\* user notification, and after it the session still offers its operations
\* (the upload zone, or the controls of the report).
C16_EveryFailureNotified ==
  lastEvent \in {"processFile:error", "processFile:fault",
                 "handleRefine:error", "handleRefine:fault",
                 "handleRefine:return"}
    => /\ alertMsg # NoAlert
       /\ UploadZoneShown \/ ControlsShown

\* C17: at most one auxiliary panel (target picker, feature picker,
\* importance panel) is shown open at any time.
C17_AtMostOnePanelOpen == Cardinality(OpenPanels) <= 1

\* C18: in every reachable state selectedTarget is unset or a column of the
\* current report's column diagnostics; while no report is present
\* changeTarget cannot act.
C18_TargetIsReportColumn ==
  /\ \/ selectedTarget = Null
     \/ /\ report # NoReport
        /\ selectedTarget \in Range(report.column_diagnostics)
  /\ report = NoReport
       => \A c \in AllColumns : ~ENABLED HandleTargetChange(c)

\* the user has picked, in the target menu, a target other than the one the
\* service suggested
C18_Witness ==
  /\ lastEvent = "handleTargetChange"
  /\ report # NoReport /\ report.stats # NoStats
  /\ selectedTarget # Null
  /\ selectedTarget # report.stats.target_used

\* C19: the download of the cleaned artifact is enabled only after at least
\* one analysis request has completed successfully. (Every successful upload
\* or recalibration writes a log entry and nothing empties the log, so a
\* success has happened exactly when the log is non-empty.)
C19_DownloadOnlyAfterSuccess == DownloadEnabled => Len(insights) > 0

\* the steps in which a request completes
SettleEvents ==
  {"processFile:ok", "processFile:fault", "processFile:error",
   "handleRefine:ok", "handleRefine:fault", "handleRefine:error"}

\* C20: whenever no request is in flight busy is false, and every request
\* that completes (success, failure or fault) is eventually followed by a
\* state in which busy is false and a new recalibration can be issued.
C20_BusyClearedAndRefinable ==
  /\ [](inflight = {} => ~loading)
  /\ [](lastEvent \in SettleEvents => <>(~loading /\ CanRefine))

\* C20, amended: whenever no request is in flight busy is false; every
\* request that completes leaves busy false at its completion; after a
\* completed recalibration and after a successful upload a new recalibration
\* can be issued; after a failed upload the upload zone or the controls of
\* the report are offered.
C20_BusyClearedOnCompletion ==
  /\ inflight = {} => ~loading
  /\ lastEvent \in SettleEvents => ~loading
  /\ lastEvent \in {"processFile:ok", "handleRefine:ok",
                    "handleRefine:fault", "handleRefine:error"} => CanRefine
  /\ lastEvent \in {"processFile:fault", "processFile:error"}
       => UploadZoneShown \/ ControlsShown

\* an upload has been rejected: busy is false, no report is present and no
\* recalibration can be issued
C20_Witness ==
  /\ lastEvent = "processFile:error"
  /\ ~loading /\ inflight = {}
  /\ ~CanRefine

\* C21: for every pair of accuracies of the grid, the diffLabel of a
\* recalibration entry is the difference rounded to one decimal with a '%'
\* suffix, with a '+' prefix exactly when the rounded difference is positive
\* and a '-' sign exactly when it is negative; for a rounded difference of
\* zero the label carries no '-' sign.
C21_DiffLabelSign ==
  [][\A q \in inflight : \A res \in Responses(q, AccuracyGrid) :
       \A t \in Later :
         RefineOk(q, res, t) =>
           LET d == RoundTenths(res.stats.accuracy.v - q.prevAccuracy.v)
               label == insights'[1].diff
           IN /\ label.suffix = "%"
              /\ label.number.text = "decimal"
              /\ 10 * label.number.whole + label.number.frac = Abs(d)
              /\ label.plus <=> (d > 0)
              /\ label.number.neg <=> (d < 0)]_vars

\* C22: the pruned count named in an OPTIMIZED entry's message is the number
\* of column diagnostics of the report that was active when the
\* recalibration was issued minus the number of selected columns sent in the
\* request, whatever is toggled while the request is in flight; a zero or
\* negative count is reported as computed.
C22_PrunedCountFromRequest ==
  [][lastEvent' = "handleRefine:ok" =>
       \A q \in inflight \ inflight' :
         \A res \in Responses(q, Accuracies) : \A t \in Later :
           RefineOk(q, res, t) /\ insights'[1].trend = "OPTIMIZED" =>
             insights'[1].message.pruned =
               Len(q.report.column_diagnostics) - Len(q.selected_columns)]_vars

\* an OPTIMIZED recalibration has completed after a column was toggled while
\* it was in flight: the count in the message is not the one of the current
\* selection
C22_Witness ==
  /\ lastEvent = "handleRefine:ok"
  /\ insights[1].trend = "OPTIMIZED"
  /\ insights[1].message.pruned
       # Len(report.column_diagnostics) - Len(selectedCols)

\* an accuracy read as zero when it is missing or not a number
ZeroIfNotFinite(raw) == IF raw.kind = "number" THEN Num(raw.v) ELSE Num(0)

\* C23: when the previous or the new accuracy is missing or not a finite
\* number, the recalibration still completes and yields a well-formed entry
\* computed as if that accuracy were zero: a numeric signed diffLabel and a
\* trend matching its sign.
C23_NonFiniteAccuracyAsZero ==
  [][\A q \in inflight : \A res \in Responses(q, RawAccuracies) :
       \A t \in Later :
         RefineOk(q, res, t) =>
           LET prev == ZeroIfNotFinite(AccuracyOf(q.report))
               new == ZeroIfNotFinite(res.stats.accuracy)
               d == RoundTenths(new.v - prev.v)
               entry == insights'[1]
           IN /\ entry.diff.number.text = "decimal"
              /\ 10 * entry.diff.number.whole + entry.diff.number.frac
                   = Abs(d)
              /\ entry.diff.plus <=> (d > 0)
              /\ (entry.trend = "OPTIMIZED") <=> (d > 0)
              /\ (entry.trend = "DEGRADED") <=> (d < 0)]_vars

\* C24: every outbound request carries the session state at the moment it is
\* issued: the upload sends the uploaded file with an empty column selection
\* and no target; a recalibration sends the current file, exactly the
\* current selectedColumns and the current selectedTarget. (The step that
\* posts changes none of these, so they are read in the state it leaves.)
C24_RequestCarriesSessionState ==
  /\ lastEvent = "processFile:post" =>
       \E q \in inflight :
         /\ q.id = sent /\ q.kind = "upload"
         /\ q.file = file
         /\ q.selected_columns = <<>>
         /\ q.target_column = Null
  /\ lastEvent = "handleRefine:post" =>
       \E q \in inflight :
         /\ q.id = sent /\ q.kind = "refine"
         /\ q.file = file
         /\ q.selected_columns = selectedCols
         /\ q.target_column = selectedTarget

\* a recalibration has just been posted with a selection the user changed
C24_Witness ==
  /\ lastEvent = "handleRefine:post"
  /\ selectedTarget # Null
  /\ selectedCols # Without(report.column_diagnostics, selectedTarget)

\* C25: toggleColumn changes only selectedColumns: report, insight log, file,
\* selectedTarget, busy and the open dropdown are unchanged and no request is
\* issued; it can be applied to every listed column whenever the feature
\* menu is shown, a request in flight or the column being the target
\* included.
C25_ToggleColumnFrame ==
  /\ [][\A c \in AllColumns :
          ToggleColumn(c) =>
            UNCHANGED <<report, insights, file, selectedTarget, loading,
                        openDropdown, inflight, sent>>]_vars
  /\ [](ControlsShown /\ csOpen
          => \A c \in Range(report.column_diagnostics) :
               ENABLED ToggleColumn(c))

\* the target's own row has been toggled while a request was in flight
C25_Witness ==
  /\ lastEvent = "toggleColumn"
  /\ inflight # {}
  /\ selectedTarget \in Range(selectedCols)

\* C26: all entries present in the insight log at the same time have
\* pairwise distinct ids.
C26_DistinctIds ==
  \A i \in 1..Len(insights) : \A j \in 1..Len(insights) :
    i # j => insights[i].id # insights[j].id

\* C27: the difference a recalibration entry reports is the accuracy of the
\* report that recalibration installs minus the accuracy of the report it
\* replaces, for every interleaving of issue and completion.
C27_DiffAgainstReplacedReport ==
  [][\A q \in inflight : \A res \in Responses(q, Accuracies) :
       \A t \in Later :
         RefineOk(q, res, t) =>
           insights'[1].diff =
             DiffLabel(ToFixed1(Minus(ParseFloat(AccuracyOf(report')),
                                      ParseFloat(OrZero(AccuracyOf(report))))))
     ]_vars

\* C28: whenever a report is present the insight log is non-empty, and the
\* log is empty as long as no report has been installed: the report and the
\* log are written together.
C28_ReportAndLogTogether == (report # NoReport) <=> (insights # <<>>)

\* C29: in every reachable state selectedColumns contains no identifier
\* twice (the column diagnostics of every report have unique identifiers).
C29_NoDuplicateSelectedCols ==
  \A i \in 1..Len(selectedCols) : \A j \in 1..Len(selectedCols) :
    i # j => selectedCols[i] # selectedCols[j]

\* every column of the report is selected after a toggle that added one
C29_Witness ==
  /\ lastEvent = "toggleColumn"
  /\ report # NoReport
  /\ Len(selectedCols) = Len(report.column_diagnostics)

\* C30: whenever a report is present and no request is in flight, the report
\* is the response to a request that sent the session's current file, and
\* the selection and the target are columns of that file.
C30_ReportBelongsToFile ==
  report # NoReport /\ inflight = {} =>
    /\ report.of_file = file
    /\ Range(selectedCols) \subseteq Range(ColumnsOf(file))
    /\ selectedTarget \in Range(ColumnsOf(file)) \cup {Null}

\* a second upload has succeeded after a first one failed
C30_Witness ==
  /\ lastEvent = "processFile:ok"
  /\ sent = 2
  /\ report # NoReport /\ inflight = {}

====
